---- MODULE Spec2Model ----
(***************************************************************************)
(* Roster and scheduling core of the hockey manager backend:               *)
(* GameService (game.service.ts), ConflictService (conflict.service.ts)    *)
(* and the error middleware (middleware/error.ts), over the Prisma store.  *)
(*                                                                         *)
(* Every service method is an async function that suspends at each         *)
(* `await prisma...` call.  A request is therefore modelled as a record    *)
(* with a program counter naming the store call it is about to make;       *)
(* Step(db, r) performs that call and the synchronous code up to the next  *)
(* one.  Run iterates Step to completion: it is the whole handler, which   *)
(* is what the sequential specification Spec executes in one action.  The  *)
(* interleaved specifications execute one Step per action.                 *)
(*                                                                         *)
(* Time is counted in ticks of 2.5 hours, so that the default game         *)
(* duration (2.5 * 60 * 60 * 1000 ms) is one tick.                         *)
(***************************************************************************)
EXTENDS Integers, FiniteSets, Sequences, TLC

VARIABLES db, reqs

vars == <<db, reqs>>

(***************************************************************************)
(* Bounds and identifiers                                                  *)
(***************************************************************************)
MaxTime == 2

MaxInFlight == 2

MaxClock == 2

DEFAULT_GAME_DURATION == 1

Times == 0..MaxTime

GameSeq == <<"g1", "g2">>

GameIds == {GameSeq[i] : i \in DOMAIN GameSeq}

PlayerIds == {"X", "Y"}

(* An id that no row of the Player table carries.                          *)
NoSuchPlayer == "Z"

TeamIds == {"A", "B"}

Slots == 1..MaxInFlight

(* An optional value (undefined / null in the source) is the empty set.    *)
None == {}

Some(x) == {x}

The(S) == CHOOSE x \in S : TRUE

(***************************************************************************)
(* Errors (middleware/error.ts) and those the Prisma client raises         *)
(***************************************************************************)
ApiError(statusCode, message) ==
  [name |-> "ApiError", statusCode |-> statusCode, message |-> message,
   code |-> "", info |-> {}]

NotFoundError(resource) ==
  [name |-> "NotFoundError", statusCode |-> 404,
   message |-> resource \o " not found", code |-> "", info |-> {}]

(* info holds the values interpolated into the message: the conflicting    *)
(* game (its team, opponent and start time) or the number of players.      *)
ConflictError(message, info) ==
  [name |-> "ConflictError", statusCode |-> 409, message |-> message,
   code |-> "", info |-> info]

PrismaClientKnownRequestError(code) ==
  [name |-> "PrismaClientKnownRequestError", statusCode |-> 0,
   message |-> "", code |-> code, info |-> {}]

(* instanceof ApiError: ApiError and its subclasses.                       *)
IsApiError(err) ==
  err.name \in {"ApiError", "NotFoundError", "ValidationError", "ConflictError"}

errorHandler(err) ==
  IF IsApiError(err)
  THEN [status |-> err.statusCode, error |-> err.message, info |-> err.info]
  ELSE IF err.name = "PrismaClientKnownRequestError" /\ err.code = "P2002"
  THEN [status |-> 409, error |-> "A record with this value already exists",
        info |-> {}]
  ELSE IF err.name = "PrismaClientKnownRequestError" /\ err.code = "P2003"
  THEN [status |-> 400, error |-> "Referenced record does not exist",
        info |-> {}]
  ELSE IF err.name = "PrismaClientKnownRequestError" /\ err.code = "P2025"
  THEN [status |-> 404, error |-> "Record not found", info |-> {}]
  ELSE [status |-> 500, error |-> "Internal server error", info |-> {}]

(***************************************************************************)
(* The store                                                               *)
(*   db.games       : created game id -> Game row                          *)
(*   db.gameRoster  : (game, player) -> number of GameRoster rows          *)
(*   db.teamPlayer  : (player, team) -> "none" | "active" | "inactive"     *)
(*   db.lineup      : game -> the Lineup rows of the game (configuration)   *)
(*   db.availability: (game, player) -> the PlayerAvailability rows         *)
(*   db.now         : the clock read by new Date()                          *)
(*   db.history     : what the last setLineup and setAvailability calls     *)
(*                    were given (a history variable, read by no operation) *)
(***************************************************************************)
InitialTeamPlayer ==
  [m \in PlayerIds \X TeamIds |->
     IF m = <<"X", "B">> THEN "inactive" ELSE "active"]

EmptyDb ==
  [games |-> <<>>,
   gameRoster |-> [k \in GameIds \X PlayerIds |-> 0],
   teamPlayer |-> InitialTeamPlayer,
   lineup |-> [g \in GameIds |-> {}],
   availability |-> [k \in GameIds \X PlayerIds |-> {}],
   now |-> 0,
   history |-> [lineup |-> [g \in GameIds |-> {}],
                availability |-> [k \in GameIds \X PlayerIds |-> {}]]]

GameFields == {"teamId", "startTime", "endTime", "status", "rosterLocked"}

Rostered(d, g, p) == d.gameRoster[<<g, p>>] > 0

RosterOf(d, g) == {p \in PlayerIds : Rostered(d, g, p)}

NotCounted == {"CANCELLED", "POSTPONED"}

(***************************************************************************)
(* ConflictService                                                         *)
(***************************************************************************)
(* Faulty variant: the first case compares endTime with gte instead of gt. *)
ThreeCases_InclusiveEnd(game, startTime, endTime) ==
  \/ (game.startTime <= startTime /\ game.endTime >= startTime)
  \/ (game.startTime < endTime /\ game.endTime >= endTime)
  \/ (game.startTime >= startTime /\ game.endTime <= endTime)

(* Faulty variant: only the first case, "new game starts during existing game". *)
ThreeCases_StartOnly(game, startTime, endTime) ==
  game.startTime <= startTime /\ game.endTime > startTime

(* Faulty variant: the third case, "new game completely contains existing *)
(* game", is left out.                                                     *)
ThreeCases_NoEnclosure(game, startTime, endTime) ==
  \/ (game.startTime <= startTime /\ game.endTime > startTime)
  \/ (game.startTime < endTime /\ game.endTime >= endTime)

(* The OR of the three cases in the where clause of checkPlayerConflict.   *)
ThreeCases(game, startTime, endTime) ==
  \/ (game.startTime <= startTime /\ game.endTime > startTime)
  \/ (game.startTime < endTime /\ game.endTime >= endTime)
  \/ (game.startTime >= startTime /\ game.endTime <= endTime)

(* Faulty variant: the status filter leaves out POSTPONED.                 *)
checkPlayerConflict_PostponedCounts(d, playerId, startTime, endTime, excludeGameId) ==
  {g \in DOMAIN d.games :
     /\ Rostered(d, g, playerId)
     /\ (excludeGameId # None => g # The(excludeGameId))
     /\ d.games[g].status # "CANCELLED"
     /\ (\/ (d.games[g].startTime <= startTime /\ d.games[g].endTime > startTime)
         \/ (d.games[g].startTime < endTime /\ d.games[g].endTime >= endTime)
         \/ (d.games[g].startTime >= startTime /\ d.games[g].endTime <= endTime))}

(* The games findFirst may return; the empty set stands for null.          *)
checkPlayerConflict(d, playerId, startTime, endTime, excludeGameId) ==
  {g \in DOMAIN d.games :
     /\ Rostered(d, g, playerId)
     /\ (excludeGameId # None => g # The(excludeGameId))
     /\ d.games[g].status \notin NotCounted
     /\ ThreeCases(d.games[g], startTime, endTime)}

(* The half-open overlap of [s1, e1) and [s2, e2) the data model defines.  *)
HalfOpenOverlap(s1, e1, s2, e2) == s1 < e2 /\ s2 < e1

(***************************************************************************)
(* Requests                                                                *)
(***************************************************************************)
NoData == [teamId |-> None, startTime |-> None, endTime |-> None, status |-> None]

NewReq(op, pc, gameId, playerId, data) ==
  [op |-> op, pc |-> pc, gameId |-> gameId, playerId |-> playerId,
   data |-> data, input |-> None, teamId |-> None, newStartTime |-> None,
   newEndTime |-> None,
   playerIds |-> {}, conflicts |-> {}, result |-> None, err |-> None,
   wrote |-> {}, conc |-> {}]

Idle == NewReq("none", "idle", None, None, NoData)

Fail(d, r, e) == [db |-> d, r |-> [r EXCEPT !.pc = "done", !.err = Some(e)]]

Goto(d, r, pc) == [db |-> d, r |-> [r EXCEPT !.pc = pc]]

(* The cells of the store in which d2 differs from d1.                     *)
Diff(d1, d2) ==
  {<<"game", g, f>> : <<g, f>> \in
     {c \in (DOMAIN d2.games) \X GameFields :
        c[1] \notin DOMAIN d1.games \/ d1.games[c[1]][c[2]] # d2.games[c[1]][c[2]]}}
  \cup {<<"gameRoster", k[1], k[2]>> : k \in
     {c \in DOMAIN d2.gameRoster : d1.gameRoster[c] # d2.gameRoster[c]}}
  \cup {<<"teamPlayer", k[1], k[2]>> : k \in
     {c \in DOMAIN d2.teamPlayer : d1.teamPlayer[c] # d2.teamPlayer[c]}}
  \cup {<<"lineup", g, "configuration">> : g \in
     {c \in DOMAIN d2.lineup : d1.lineup[c] # d2.lineup[c]}}
  \cup {<<"availability", k[1], k[2]>> : k \in
     {c \in DOMAIN d2.availability : d1.availability[c] # d2.availability[c]}}

(* A write that ends the request; r.wrote records the cells it changed.    *)
Write(d, d2, r) ==
  [db |-> d2, r |-> [r EXCEPT !.pc = "done", !.wrote = @ \cup Diff(d, d2)]]

(***************************************************************************)
(* GameService.addToRoster, with ConflictService.validateRosterAddition    *)
(***************************************************************************)
(* game.findUnique, then the rosterLocked test.                            *)
addToRoster_findGame(d, r) ==
  IF The(r.gameId) \notin DOMAIN d.games
  THEN {Fail(d, r, NotFoundError("Game"))}
  ELSE IF d.games[The(r.gameId)].rosterLocked
  THEN {Fail(d, r, ApiError(400, "Roster is locked"))}
  ELSE {[db |-> d,
         r |-> [r EXCEPT !.pc = "addToRoster_findTeamPlayer",
                         !.teamId = Some(d.games[The(r.gameId)].teamId)]]}

(* Faulty variant: findFirst without the isActive: true filter.            *)
addToRoster_findTeamPlayer_AnyMembership(d, r) ==
  IF /\ <<The(r.playerId), The(r.teamId)>> \in DOMAIN d.teamPlayer
     /\ d.teamPlayer[<<The(r.playerId), The(r.teamId)>>] # "none"
  THEN {Goto(d, r, "validateRosterAddition_findGame")}
  ELSE {Fail(d, r, ApiError(400, "Player is not on this team"))}

(* teamPlayer.findFirst({playerId, teamId: game.teamId, isActive: true});  *)
(* a player without a Player row has no TeamPlayer row either.             *)
addToRoster_findTeamPlayer(d, r) ==
  IF /\ <<The(r.playerId), The(r.teamId)>> \in DOMAIN d.teamPlayer
     /\ d.teamPlayer[<<The(r.playerId), The(r.teamId)>>] = "active"
  THEN {Goto(d, r, "validateRosterAddition_findGame")}
  ELSE {Fail(d, r, ApiError(400, "Player is not on this team"))}

(* validateRosterAddition: game.findUnique selecting startTime, endTime.   *)
validateRosterAddition_findGame(d, r) ==
  IF The(r.gameId) \notin DOMAIN d.games
  THEN {Goto(d, r, "addToRoster_findExisting")}
  ELSE {[db |-> d,
         r |-> [r EXCEPT !.pc = "validateRosterAddition_check",
                         !.newStartTime = Some(d.games[The(r.gameId)].startTime),
                         !.newEndTime = Some(d.games[The(r.gameId)].endTime)]]}

(* validateRosterAddition: checkPlayerConflict excluding the game itself.  *)
validateRosterAddition_check(d, r) ==
  LET conflict == checkPlayerConflict(d, The(r.playerId), The(r.newStartTime),
                                      The(r.newEndTime), r.gameId)
  IN IF conflict = {}
     THEN {Goto(d, r, "addToRoster_findExisting")}
     ELSE {Fail(d, r, ConflictError("Player is already rostered for", {g})) :
             g \in conflict}

(* Faulty variant: a player who declined the game is refused.              *)
addToRoster_findExisting_RefusesUnavailable(d, r) ==
  IF Rostered(d, The(r.gameId), The(r.playerId))
  THEN {Fail(d, r, ConflictError("Player is already on the roster", {}))}
  ELSE IF \E a \in d.availability[<<The(r.gameId), The(r.playerId)>>] :
            a.status = "UNAVAILABLE"
  THEN {Fail(d, r, ApiError(400, "Player is unavailable"))}
  ELSE {Goto(d, r, "addToRoster_create")}

(* gameRoster.findUnique on the (gameId, playerId) pair.                   *)
addToRoster_findExisting(d, r) ==
  IF Rostered(d, The(r.gameId), The(r.playerId))
  THEN {Fail(d, r, ConflictError("Player is already on the roster", {}))}
  ELSE {Goto(d, r, "addToRoster_create")}

(* gameRoster.create; the store rejects a second row for the pair (P2002). *)
addToRoster_create(d, r) ==
  LET k == <<The(r.gameId), The(r.playerId)>>
  IN IF d.gameRoster[k] > 0
     THEN {Fail(d, r, PrismaClientKnownRequestError("P2002"))}
     ELSE {Write(d, [d EXCEPT !.gameRoster[k] = @ + 1], r)}

(* A direct call of checkPlayerConflict(playerId, startTime, endTime,       *)
(* excludeGameId): its one store call, and the game or null it returns.    *)
checkPlayerConflict_findFirst(d, r) ==
  LET conflict == checkPlayerConflict(d, The(r.playerId), The(r.newStartTime),
                                      The(r.newEndTime), r.gameId)
  IN IF conflict = {}
     THEN {[db |-> d, r |-> [r EXCEPT !.pc = "done", !.result = None]]}
     ELSE {[db |-> d, r |-> [r EXCEPT !.pc = "done", !.result = Some(g)]] :
             g \in conflict}

(***************************************************************************)
(* GameService.removeFromRoster                                            *)
(***************************************************************************)
(* Faulty variant: removeFromRoster does not test rosterLocked.            *)
removeFromRoster_findGame_NoLockTest(d, r) ==
  IF The(r.gameId) \notin DOMAIN d.games
  THEN {Fail(d, r, NotFoundError("Game"))}
  ELSE {Goto(d, r, "removeFromRoster_delete")}

removeFromRoster_findGame(d, r) ==
  IF The(r.gameId) \notin DOMAIN d.games
  THEN {Fail(d, r, NotFoundError("Game"))}
  ELSE IF d.games[The(r.gameId)].rosterLocked
  THEN {Fail(d, r, ApiError(400, "Roster is locked"))}
  ELSE {Goto(d, r, "removeFromRoster_delete")}

(* Faulty variant: deleting a row that is not there succeeds silently.     *)
removeFromRoster_delete_Silent(d, r) ==
  LET k == <<The(r.gameId), The(r.playerId)>>
  IN {Write(d, [d EXCEPT !.gameRoster[k] = IF @ > 0 THEN @ - 1 ELSE @], r)}

(* gameRoster.delete on the unique pair; no such row raises P2025.         *)
removeFromRoster_delete(d, r) ==
  LET k == <<The(r.gameId), The(r.playerId)>>
  IN IF d.gameRoster[k] = 0
     THEN {Fail(d, r, PrismaClientKnownRequestError("P2025"))}
     ELSE {Write(d, [d EXCEPT !.gameRoster[k] = @ - 1], r)}

(***************************************************************************)
(* GameService.delete (cancel), lockRoster, unlockRoster                   *)
(***************************************************************************)
findGameThen(d, r, pc) ==
  IF The(r.gameId) \notin DOMAIN d.games
  THEN {Fail(d, r, NotFoundError("Game"))}
  ELSE {Goto(d, r, pc)}

(* game.update({where: {id}, data}): the fields of data that are defined   *)
(* overwrite the row's; a missing row raises P2025.                        *)
gameUpdate(d, r, data) ==
  IF The(r.gameId) \notin DOMAIN d.games
  THEN {Fail(d, r, PrismaClientKnownRequestError("P2025"))}
  ELSE LET game == d.games[The(r.gameId)]
           row == [f \in DOMAIN game |->
                     IF f \in DOMAIN data THEN data[f] ELSE game[f]]
       IN {Write(d, [d EXCEPT !.games[The(r.gameId)] = row], r)}

(* Faulty variant: cancelling also reopens the roster.                     *)
delete_update_Unlocks(d, r) ==
  gameUpdate(d, r, [status |-> "CANCELLED", rosterLocked |-> FALSE])

delete_update(d, r) == gameUpdate(d, r, [status |-> "CANCELLED"])

(* Faulty variant: locking a roster that is already locked is refused.     *)
lockRoster_update_RefusesLocked(d, r) ==
  IF The(r.gameId) \in DOMAIN d.games /\ d.games[The(r.gameId)].rosterLocked
  THEN {Fail(d, r, ApiError(400, "Roster is locked"))}
  ELSE gameUpdate(d, r, [rosterLocked |-> TRUE])

lockRoster_update(d, r) == gameUpdate(d, r, [rosterLocked |-> TRUE])

unlockRoster_update(d, r) == gameUpdate(d, r, [rosterLocked |-> FALSE])

(***************************************************************************)
(* GameService.setLineup and getLineup                                     *)
(*                                                                         *)
(* A lineup (LineupInput) is an object with the optional keys              *)
(* forwardLines and defensePairs (arrays of arrays of strings) and goalies *)
(* (an array of strings): a function from the keys it has to their values. *)
(* A JSON text is the sequence of its tokens: braces, brackets, keys and   *)
(* strings; commas and colons carry nothing and are left out.              *)
(***************************************************************************)
LineupKeys == <<"forwardLines", "defensePairs", "goalies">>

RECURSIVE Flatten(_)
Flatten(texts) ==
  IF texts = <<>> THEN <<>> ELSE Head(texts) \o Flatten(Tail(texts))

(* JSON.stringify of an array of strings, and of an array of such arrays.  *)
stringifyStrings(a) == <<"[">> \o a \o <<"]">>

stringifyArrays(a) ==
  <<"[">> \o Flatten([i \in DOMAIN a |-> stringifyStrings(a[i])]) \o <<"]">>

(* JSON.stringify of a lineup: the keys it has, in the order of the schema; *)
(* a key whose value is undefined is left out.                             *)
JSON_stringify(data) ==
  <<"{">>
  \o Flatten([i \in DOMAIN LineupKeys |->
                IF LineupKeys[i] \notin DOMAIN data
                THEN <<>>
                ELSE <<LineupKeys[i]>>
                     \o (IF LineupKeys[i] = "goalies"
                         THEN stringifyStrings(data[LineupKeys[i]])
                         ELSE stringifyArrays(data[LineupKeys[i]]))])
  \o <<"}">>

(* The elements of an array, read from the token after its "[" up to the   *)
(* matching "]": val is the array, rest the tokens that follow it.          *)
RECURSIVE parseElements(_)
parseElements(tokens) ==
  IF Head(tokens) = "]"
  THEN [val |-> <<>>, rest |-> Tail(tokens)]
  ELSE LET first == IF Head(tokens) = "["
                    THEN parseElements(Tail(tokens))
                    ELSE [val |-> Head(tokens), rest |-> Tail(tokens)]
           others == parseElements(first.rest)
       IN [val |-> <<first.val>> \o others.val, rest |-> others.rest]

(* The members of an object, read from the token after its "{".            *)
RECURSIVE parseMembers(_)
parseMembers(tokens) ==
  IF Head(tokens) = "}"
  THEN <<>>
  ELSE LET value == parseElements(Tail(Tail(tokens)))
       IN (Head(tokens) :> value.val) @@ parseMembers(value.rest)

JSON_parse(text) == parseMembers(Tail(text))

(* Faulty variant: a lineup saved earlier is kept (create without update). *)
setLineup_upsert_KeepsFirst(d, r) ==
  LET g == The(r.gameId)
      configuration == JSON_stringify(The(r.input))
  IN {Write(d, [d EXCEPT !.lineup[g] = IF @ = {} THEN {configuration} ELSE @,
                         !.history.lineup[g] = r.input], r)}

(* lineup.upsert({where: {gameId}, update: {configuration}, create: ...}): *)
(* the row of the game, if any, is replaced.                               *)
setLineup_upsert(d, r) ==
  LET g == The(r.gameId)
      configuration == JSON_stringify(The(r.input))
  IN {Write(d, [d EXCEPT !.lineup[g] = {configuration},
                         !.history.lineup[g] = r.input], r)}

(* lineup.findUnique({where: {gameId}}); null, or the parsed configuration. *)
getLineup_findUnique(d, r) ==
  LET g == The(r.gameId)
  IN IF d.lineup[g] = {}
     THEN {[db |-> d, r |-> [r EXCEPT !.pc = "done", !.result = None]]}
     ELSE {[db |-> d,
            r |-> [r EXCEPT !.pc = "done",
                            !.result = Some(JSON_parse(lineup))]] :
             lineup \in d.lineup[g]}

(***************************************************************************)
(* AvailabilityService.setAvailability (availability.service.ts)           *)
(***************************************************************************)
setAvailability_findPlayer(d, r) ==
  IF The(r.playerId) \notin PlayerIds
  THEN {Fail(d, r, NotFoundError("Player"))}
  ELSE {Goto(d, r, "setAvailability_upsert")}

(* The row the update branch of the upsert makes of an existing row: a     *)
(* note that is undefined leaves the note of the row as it is.             *)
updatedAvailability(row, data, now) ==
  [status |-> data.status,
   note |-> IF data.note # None THEN data.note ELSE row.note,
   respondedAt |-> now]

(* Faulty variant: respondedAt is kept when the status does not change.    *)
setAvailability_upsert_KeepsRespondedAt(d, r) ==
  LET k == <<The(r.gameId), The(r.playerId)>>
      data == The(r.input)
      created == [status |-> data.status, note |-> data.note, respondedAt |-> d.now]
      rows == IF d.availability[k] = {}
              THEN {created}
              ELSE {IF row.status = data.status
                    THEN [updatedAvailability(row, data, d.now)
                          EXCEPT !.respondedAt = row.respondedAt]
                    ELSE updatedAvailability(row, data, d.now) :
                      row \in d.availability[k]}
  IN {Write(d, [d EXCEPT !.availability[k] = rows,
                         !.history.availability[k] =
                            {[status |-> data.status, respondedAt |-> d.now]}],
            [r EXCEPT !.result = d.availability[k]])}

(* playerAvailability.upsert on the unique pair (playerId_gameId), with    *)
(* respondedAt: new Date() in both branches.  r.result keeps the row the   *)
(* upsert found.                                                           *)
setAvailability_upsert(d, r) ==
  LET k == <<The(r.gameId), The(r.playerId)>>
      data == The(r.input)
      created == [status |-> data.status, note |-> data.note, respondedAt |-> d.now]
      rows == IF d.availability[k] = {}
              THEN {created}
              ELSE {updatedAvailability(row, data, d.now) : row \in d.availability[k]}
  IN {Write(d, [d EXCEPT !.availability[k] = rows,
                         !.history.availability[k] =
                            {[status |-> data.status, respondedAt |-> d.now]}],
            [r EXCEPT !.result = d.availability[k]])}

(***************************************************************************)
(* AvailabilityService.getAvailabilitySummary                              *)
(***************************************************************************)
(* game.findUnique including the active players of the game's team.        *)
getAvailabilitySummary_findGame(d, r) ==
  IF The(r.gameId) \notin DOMAIN d.games
  THEN {Fail(d, r, NotFoundError("Game"))}
  ELSE {[db |-> d,
         r |-> [r EXCEPT !.pc = "getAvailabilitySummary_findMany",
                         !.playerIds =
                            {p \in PlayerIds :
                               d.teamPlayer[<<p, d.games[The(r.gameId)].teamId>>]
                                 = "active"}]]}

(* The rows of the game that carry the given status.                       *)
WithStatus(d, g, status) ==
  {p \in PlayerIds : \E a \in d.availability[<<g, p>>] : a.status = status}

(* Faulty variant: pending is total minus the number of all responders.    *)
getAvailabilitySummary_findMany_AllResponders(d, r) ==
  LET g == The(r.gameId)
      responded == {p \in PlayerIds : d.availability[<<g, p>>] # {}}
      summary == [total |-> Cardinality(r.playerIds),
                  available |-> Cardinality(WithStatus(d, g, "AVAILABLE")),
                  unavailable |-> Cardinality(WithStatus(d, g, "UNAVAILABLE")),
                  maybe |-> Cardinality(WithStatus(d, g, "MAYBE")),
                  pending |-> Cardinality(r.playerIds) - Cardinality(responded)]
  IN {[db |-> d, r |-> [r EXCEPT !.pc = "done", !.result = Some(summary)]]}

(* playerAvailability.findMany({gameId}), then the counts: pending counts  *)
(* the team players whose id is not in the set of responders.              *)
getAvailabilitySummary_findMany(d, r) ==
  LET g == The(r.gameId)
      responded == {p \in PlayerIds : d.availability[<<g, p>>] # {}}
      summary == [total |-> Cardinality(r.playerIds),
                  available |-> Cardinality(WithStatus(d, g, "AVAILABLE")),
                  unavailable |-> Cardinality(WithStatus(d, g, "UNAVAILABLE")),
                  maybe |-> Cardinality(WithStatus(d, g, "MAYBE")),
                  pending |-> Cardinality({id \in r.playerIds : id \notin responded})]
  IN {[db |-> d, r |-> [r EXCEPT !.pc = "done", !.result = Some(summary)]]}

(***************************************************************************)
(* TeamService.addPlayer and removePlayer (team.service.ts)                *)
(***************************************************************************)
addPlayer_findTeam(d, r) ==
  IF The(r.teamId) \notin TeamIds
  THEN {Fail(d, r, NotFoundError("Team"))}
  ELSE {Goto(d, r, "addPlayer_findPlayer")}

addPlayer_findPlayer(d, r) ==
  IF The(r.playerId) \notin PlayerIds
  THEN {Fail(d, r, NotFoundError("Player"))}
  ELSE {Goto(d, r, "addPlayer_findExisting")}

(* teamPlayer.findUnique: an active row is a conflict, an inactive row is  *)
(* reactivated, no row leads to the create.                                *)
addPlayer_findExisting(d, r) ==
  LET existing == d.teamPlayer[<<The(r.playerId), The(r.teamId)>>]
  IN IF existing = "active"
     THEN {Fail(d, r, ConflictError("Player is already on this team", {}))}
     ELSE IF existing = "inactive"
     THEN {Goto(d, r, "addPlayer_update")}
     ELSE {Goto(d, r, "addPlayer_create")}

(* teamPlayer.update({where: {id}, data: {isActive: true}})                *)
addPlayer_update(d, r) ==
  LET k == <<The(r.playerId), The(r.teamId)>>
  IN IF d.teamPlayer[k] = "none"
     THEN {Fail(d, r, PrismaClientKnownRequestError("P2025"))}
     ELSE {Write(d, [d EXCEPT !.teamPlayer[k] = "active"], r)}

(* teamPlayer.create; the pair is unique (playerId_teamId).                *)
addPlayer_create(d, r) ==
  LET k == <<The(r.playerId), The(r.teamId)>>
  IN IF d.teamPlayer[k] # "none"
     THEN {Fail(d, r, PrismaClientKnownRequestError("P2002"))}
     ELSE {Write(d, [d EXCEPT !.teamPlayer[k] = "active"], r)}

removePlayer_findMembership(d, r) ==
  IF \/ <<The(r.playerId), The(r.teamId)>> \notin DOMAIN d.teamPlayer
     \/ d.teamPlayer[<<The(r.playerId), The(r.teamId)>>] = "none"
  THEN {Fail(d, r, NotFoundError("Team membership"))}
  ELSE {Goto(d, r, "removePlayer_update")}

(* Faulty variant: leaving the team also drops the player's roster rows on *)
(* the games of the team.                                                  *)
removePlayer_update_DropsRosterRows(d, r) ==
  LET k == <<The(r.playerId), The(r.teamId)>>
  IN IF d.teamPlayer[k] = "none"
     THEN {Fail(d, r, PrismaClientKnownRequestError("P2025"))}
     ELSE {Write(d, [d EXCEPT !.teamPlayer[k] = "inactive",
                              !.gameRoster =
                                 [c \in DOMAIN d.gameRoster |->
                                    IF /\ c[2] = The(r.playerId)
                                       /\ c[1] \in DOMAIN d.games
                                       /\ d.games[c[1]].teamId = The(r.teamId)
                                    THEN 0 ELSE d.gameRoster[c]]], r)}

(* The soft delete: teamPlayer.update({data: {isActive: false}}).          *)
removePlayer_update(d, r) ==
  LET k == <<The(r.playerId), The(r.teamId)>>
  IN IF d.teamPlayer[k] = "none"
     THEN {Fail(d, r, PrismaClientKnownRequestError("P2025"))}
     ELSE {Write(d, [d EXCEPT !.teamPlayer[k] = "inactive"], r)}

(***************************************************************************)
(* GameService.create                                                      *)
(***************************************************************************)
create_findTeam(d, r) ==
  IF The(r.data.teamId) \notin TeamIds
  THEN {Fail(d, r, NotFoundError("Team"))}
  ELSE {Goto(d, r, "create_create")}

(* game.create: the store allots the id; status and rosterLocked take the  *)
(* column defaults.  endTime defaults to startTime + the default duration. *)
create_create(d, r) ==
  LET startTime == The(r.data.startTime)
      endTime == IF r.data.endTime # None
                 THEN The(r.data.endTime)
                 ELSE startTime + DEFAULT_GAME_DURATION
      row == [teamId |-> The(r.data.teamId), startTime |-> startTime,
              endTime |-> endTime, status |-> "SCHEDULED",
              rosterLocked |-> FALSE]
  IN {Write(d, [d EXCEPT !.games = (The(r.gameId) :> row) @@ @], r)}

(***************************************************************************)
(* GameService.update, with ConflictService.getPlayersWithConflicts        *)
(***************************************************************************)
(* Faulty variant: the update is rejected only when conflicts.size > 1.    *)
update_afterScan_OffByOne(d, r) ==
  IF Cardinality(r.conflicts) > 1
  THEN Fail(d, r, ConflictError("Cannot change game time",
                                {Cardinality(r.conflicts)}))
  ELSE Goto(d, r, "update_write")

(* After the for loop of getPlayersWithConflicts: conflicts.size > 0.      *)
update_afterScan(d, r) ==
  IF Cardinality(r.conflicts) > 0
  THEN Fail(d, r, ConflictError("Cannot change game time",
                                {Cardinality(r.conflicts)}))
  ELSE Goto(d, r, "update_write")

(* Faulty variant: the interval checked keeps the stored endTime when the  *)
(* request carries a new one.                                              *)
update_findGame_ChecksOldEnd(d, r) ==
  IF The(r.gameId) \notin DOMAIN d.games
  THEN {Fail(d, r, NotFoundError("Game"))}
  ELSE IF r.data.startTime # None \/ r.data.endTime # None
  THEN LET existing == d.games[The(r.gameId)]
           newStartTime == IF r.data.startTime # None
                           THEN The(r.data.startTime)
                           ELSE existing.startTime
       IN {[db |-> d,
            r |-> [r EXCEPT !.pc = "update_findRoster",
                            !.newStartTime = Some(newStartTime),
                            !.newEndTime = Some(existing.endTime)]]}
  ELSE {Goto(d, r, "update_write")}

(* game.findUnique, then the effective new interval.                       *)
update_findGame(d, r) ==
  IF The(r.gameId) \notin DOMAIN d.games
  THEN {Fail(d, r, NotFoundError("Game"))}
  ELSE IF r.data.startTime # None \/ r.data.endTime # None
  THEN LET existing == d.games[The(r.gameId)]
           newStartTime == IF r.data.startTime # None
                           THEN The(r.data.startTime)
                           ELSE existing.startTime
           newEndTime == IF r.data.endTime # None
                         THEN The(r.data.endTime)
                         ELSE IF r.data.startTime # None
                         THEN newStartTime + DEFAULT_GAME_DURATION
                         ELSE existing.endTime
       IN {[db |-> d,
            r |-> [r EXCEPT !.pc = "update_findRoster",
                            !.newStartTime = Some(newStartTime),
                            !.newEndTime = Some(newEndTime)]]}
  ELSE {Goto(d, r, "update_write")}

(* gameRoster.findMany({gameId}); an empty list ends the scan at once.     *)
update_findRoster(d, r) ==
  LET playerIds == RosterOf(d, The(r.gameId))
      r1 == [r EXCEPT !.playerIds = playerIds, !.pc = "update_check"]
  IN IF playerIds = {} THEN {update_afterScan(d, r1)} ELSE {[db |-> d, r |-> r1]}

(* Faulty variant: the scan does not exclude the game being updated.       *)
update_check_NoExclude(d, r) ==
  {LET conflict == checkPlayerConflict(d, playerId, The(r.newStartTime),
                                       The(r.newEndTime), None)
       r1 == [r EXCEPT !.playerIds = @ \ {playerId},
                       !.conflicts = IF conflict # {}
                                     THEN @ \cup {playerId} ELSE @]
   IN IF r1.playerIds = {} THEN update_afterScan(d, r1) ELSE [db |-> d, r |-> r1]
   : playerId \in r.playerIds}

(* One iteration of getPlayersWithConflicts: checkPlayerConflict for one   *)
(* of the remaining players, in the order findMany returned them.          *)
update_check(d, r) ==
  {LET conflict == checkPlayerConflict(d, playerId, The(r.newStartTime),
                                       The(r.newEndTime), r.gameId)
       r1 == [r EXCEPT !.playerIds = @ \ {playerId},
                       !.conflicts = IF conflict # {}
                                     THEN @ \cup {playerId} ELSE @]
   IN IF r1.playerIds = {} THEN update_afterScan(d, r1) ELSE [db |-> d, r |-> r1]
   : playerId \in r.playerIds}

(* game.update with {...data, startTime, endTime}: startTime and endTime   *)
(* are written only when the request carries them.                         *)
update_write(d, r) ==
  LET data == (IF r.data.startTime # None
               THEN [startTime |-> The(r.data.startTime)] ELSE <<>>)
              @@ (IF r.data.endTime # None
                  THEN [endTime |-> The(r.data.endTime)] ELSE <<>>)
              @@ (IF r.data.status # None
                  THEN [status |-> The(r.data.status)] ELSE <<>>)
  IN gameUpdate(d, r, data)

(***************************************************************************)
(* One store call of a request, and a handler run to completion            *)
(***************************************************************************)
Step(d, r) ==
  CASE r.pc = "addToRoster_findGame" -> addToRoster_findGame(d, r)
    [] r.pc = "addToRoster_findTeamPlayer" -> addToRoster_findTeamPlayer(d, r)
    [] r.pc = "validateRosterAddition_findGame" -> validateRosterAddition_findGame(d, r)
    [] r.pc = "validateRosterAddition_check" -> validateRosterAddition_check(d, r)
    [] r.pc = "addToRoster_findExisting" -> addToRoster_findExisting(d, r)
    [] r.pc = "addToRoster_create" -> addToRoster_create(d, r)
    [] r.pc = "removeFromRoster_findGame" -> removeFromRoster_findGame(d, r)
    [] r.pc = "removeFromRoster_delete" -> removeFromRoster_delete(d, r)
    [] r.pc = "delete_findGame" -> findGameThen(d, r, "delete_update")
    [] r.pc = "delete_update" -> delete_update(d, r)
    [] r.pc = "lockRoster_findGame" -> findGameThen(d, r, "lockRoster_update")
    [] r.pc = "lockRoster_update" -> lockRoster_update(d, r)
    [] r.pc = "unlockRoster_findGame" -> findGameThen(d, r, "unlockRoster_update")
    [] r.pc = "unlockRoster_update" -> unlockRoster_update(d, r)
    [] r.pc = "create_findTeam" -> create_findTeam(d, r)
    [] r.pc = "create_create" -> create_create(d, r)
    [] r.pc = "update_findGame" -> update_findGame(d, r)
    [] r.pc = "update_findRoster" -> update_findRoster(d, r)
    [] r.pc = "update_check" -> update_check(d, r)
    [] r.pc = "update_write" -> update_write(d, r)
    [] r.pc = "checkPlayerConflict_findFirst" -> checkPlayerConflict_findFirst(d, r)
    [] r.pc = "setLineup_findGame" -> findGameThen(d, r, "setLineup_upsert")
    [] r.pc = "setLineup_upsert" -> setLineup_upsert(d, r)
    [] r.pc = "getLineup_findUnique" -> getLineup_findUnique(d, r)
    [] r.pc = "setAvailability_findGame" ->
         findGameThen(d, r, "setAvailability_findPlayer")
    [] r.pc = "setAvailability_findPlayer" -> setAvailability_findPlayer(d, r)
    [] r.pc = "setAvailability_upsert" -> setAvailability_upsert(d, r)
    [] r.pc = "getAvailabilitySummary_findGame" ->
         getAvailabilitySummary_findGame(d, r)
    [] r.pc = "getAvailabilitySummary_findMany" ->
         getAvailabilitySummary_findMany(d, r)
    [] r.pc = "addPlayer_findTeam" -> addPlayer_findTeam(d, r)
    [] r.pc = "addPlayer_findPlayer" -> addPlayer_findPlayer(d, r)
    [] r.pc = "addPlayer_findExisting" -> addPlayer_findExisting(d, r)
    [] r.pc = "addPlayer_update" -> addPlayer_update(d, r)
    [] r.pc = "addPlayer_create" -> addPlayer_create(d, r)
    [] r.pc = "removePlayer_findMembership" -> removePlayer_findMembership(d, r)
    [] r.pc = "removePlayer_update" -> removePlayer_update(d, r)

RECURSIVE RunAll(_)
RunAll(S) ==
  IF \A x \in S : x.r.pc = "done"
  THEN S
  ELSE RunAll(UNION {IF x.r.pc = "done" THEN {x} ELSE Step(x.db, x.r) : x \in S})

Run(d, r) == RunAll({[db |-> d, r |-> r]})

(***************************************************************************)
(* Calls of the service methods (routes/game.routes.ts)                    *)
(***************************************************************************)
addToRoster(gameId, playerId) ==
  NewReq("addToRoster", "addToRoster_findGame", Some(gameId), Some(playerId), NoData)

removeFromRoster(gameId, playerId) ==
  NewReq("removeFromRoster", "removeFromRoster_findGame", Some(gameId),
         Some(playerId), NoData)

delete(gameId) ==
  NewReq("delete", "delete_findGame", Some(gameId), None, NoData)

lockRoster(gameId) ==
  NewReq("lockRoster", "lockRoster_findGame", Some(gameId), None, NoData)

unlockRoster(gameId) ==
  NewReq("unlockRoster", "unlockRoster_findGame", Some(gameId), None, NoData)

update(gameId, data) ==
  NewReq("update", "update_findGame", Some(gameId), None, data)

(* The id is the one the store will allot to the new row.                  *)
create(gameId, data) ==
  NewReq("create", "create_findTeam", Some(gameId), None, data)

setLineup(gameId, data) ==
  [NewReq("setLineup", "setLineup_findGame", Some(gameId), None, NoData)
   EXCEPT !.input = Some(data)]

getLineup(gameId) ==
  NewReq("getLineup", "getLineup_findUnique", Some(gameId), None, NoData)

setAvailability(playerId, gameId, data) ==
  [NewReq("setAvailability", "setAvailability_findGame", Some(gameId),
          Some(playerId), NoData)
   EXCEPT !.input = Some(data)]

getAvailabilitySummary(gameId) ==
  NewReq("getAvailabilitySummary", "getAvailabilitySummary_findGame",
         Some(gameId), None, NoData)

addPlayer(teamId, playerId) ==
  [NewReq("addPlayer", "addPlayer_findTeam", None, Some(playerId), NoData)
   EXCEPT !.teamId = Some(teamId)]

removePlayer(teamId, playerId) ==
  [NewReq("removePlayer", "removePlayer_findMembership", None, Some(playerId), NoData)
   EXCEPT !.teamId = Some(teamId)]

checkPlayerConflictCall(playerId, startTime, endTime, excludeGameId) ==
  [NewReq("checkPlayerConflict", "checkPlayerConflict_findFirst",
          excludeGameId, Some(playerId), NoData)
   EXCEPT !.newStartTime = Some(startTime), !.newEndTime = Some(endTime)]

(***************************************************************************)
(* Inputs                                                                  *)
(***************************************************************************)
Optional(S) == {None} \cup {Some(x) : x \in S}

(* Each game id is allotted to a game of a fixed team: games of team A and *)
(* of team B exist side by side.                                           *)
HomeTeam(g) == IF g = "g1" THEN "A" ELSE "B"

(* The ids not yet allotted; the store allots them in the order of GameSeq. *)
FreshGameIds ==
  {GameSeq[i] : i \in {j \in DOMAIN GameSeq :
                         /\ GameSeq[j] \notin DOMAIN db.games
                         /\ \A k \in 1..(j - 1) : GameSeq[k] \in DOMAIN db.games}}

CreateInputs ==
  {[teamId |-> Some(HomeTeam(g)), startTime |-> Some(s), endTime |-> e,
    status |-> None, gameId |-> g] :
     g \in FreshGameIds, s \in Times, e \in Optional(Times)}

StatusInputs == {"SCHEDULED", "POSTPONED"}

UpdateInputs ==
  [teamId : {None}, startTime : Optional(Times), endTime : Optional(Times),
   status : Optional(StatusInputs)]

(***************************************************************************)
(* Sequential specifications: every call runs to completion before the     *)
(* next one starts.  reqs[1] holds the completed call, with its outcome    *)
(* and the cells of the store it wrote, until its response is sent.           *)
(***************************************************************************)
Init ==
  /\ db = EmptyDb
  /\ reqs = [t \in Slots |-> Idle]

Call(r) ==
  /\ \A t \in Slots : reqs[t].pc = "idle"
  /\ \E x \in Run(db, r) :
       /\ db' = x.db
       /\ reqs' = [reqs EXCEPT ![1] = x.r]

(* The route handler sends the response; the request is over.              *)
Respond ==
  \E t \in Slots :
    /\ reqs[t].pc = "done"
    /\ reqs' = [u \in Slots |->
                 IF u = t THEN Idle ELSE [reqs[u] EXCEPT !.conc = @ \ {t}]]
    /\ db' = db

CallCreate ==
  \E c \in CreateInputs :
    Call(create(c.gameId, [teamId |-> c.teamId, startTime |-> c.startTime,
                           endTime |-> c.endTime, status |-> None]))

CallUpdate == \E g \in GameIds, data \in UpdateInputs : Call(update(g, data))

(* A game update that carries startTime and/or endTime and nothing else.   *)
CallUpdateTime ==
  \E g \in GameIds, data \in UpdateInputs :
    /\ data.startTime # None \/ data.endTime # None
    /\ data.status = None
    /\ Call(update(g, data))

(* A game update that postpones the game.                                  *)
CallPostpone ==
  \E g \in GameIds :
    Call(update(g, [NoData EXCEPT !.status = Some("POSTPONED")]))

CallDelete == \E g \in GameIds : Call(delete(g))

CallAddToRoster == \E g \in GameIds, p \in PlayerIds : Call(addToRoster(g, p))

CallRemoveFromRoster ==
  \E g \in GameIds, p \in PlayerIds : Call(removeFromRoster(g, p))

CallLockRoster == \E g \in GameIds : Call(lockRoster(g))

CallUnlockRoster == \E g \in GameIds : Call(unlockRoster(g))

(* Roster lifecycle: games are created, rostered, locked and cancelled.    *)
Next ==
  \/ CallCreate
  \/ CallDelete
  \/ CallAddToRoster
  \/ CallRemoveFromRoster
  \/ CallLockRoster
  \/ CallUnlockRoster
  \/ CallPostpone
  \/ Respond

Spec == Init /\ [][Next]_vars

(* Scheduling: games are created, rostered and updated (moved, postponed   *)
(* and rescheduled).                                                       *)
NextSchedule ==
  \/ CallCreate
  \/ CallUpdate
  \/ CallAddToRoster
  \/ CallRemoveFromRoster
  \/ Respond

SpecSchedule == Init /\ [][NextSchedule]_vars

(* Booking: the operations of the no-double-booking property.  Games are   *)
(* created, rostered, moved (startTime and/or endTime) and cancelled.      *)
NextBooking ==
  \/ CallCreate
  \/ CallUpdateTime
  \/ CallDelete
  \/ CallAddToRoster
  \/ CallRemoveFromRoster
  \/ Respond

SpecBooking == Init /\ [][NextBooking]_vars

(* Moves with an explicit end: games are created, rostered, locked,        *)
(* unlocked, cancelled and given a new endTime, with or without a new      *)
(* startTime.                                                              *)
CallUpdateEnd ==
  \E g \in GameIds, data \in UpdateInputs :
    /\ data.endTime # None
    /\ data.status = None
    /\ Call(update(g, data))

NextExplicitEnd ==
  \/ CallCreate
  \/ CallUpdateEnd
  \/ CallDelete
  \/ CallAddToRoster
  \/ CallRemoveFromRoster
  \/ CallLockRoster
  \/ CallUnlockRoster
  \/ Respond

SpecExplicitEnd == Init /\ [][NextExplicitEnd]_vars

(***************************************************************************)
(* Team membership: players join and leave teams while games are created,  *)
(* rostered and locked.  Player Y has never been on team A; the ids sent   *)
(* to addToRoster and addPlayer include one of no player.                  *)
(***************************************************************************)
InitTeam ==
  /\ db = [EmptyDb EXCEPT !.teamPlayer[<<"Y", "A">>] = "none"]
  /\ reqs = [t \in Slots |-> Idle]

(* A creation that leaves endTime to the default.                          *)
CallCreateDefault ==
  \E c \in CreateInputs :
    /\ c.endTime = None
    /\ Call(create(c.gameId, [teamId |-> c.teamId, startTime |-> c.startTime,
                              endTime |-> None, status |-> None]))

CallAddToRosterAnyId ==
  \E g \in GameIds, p \in PlayerIds \cup {NoSuchPlayer} : Call(addToRoster(g, p))

CallAddPlayer ==
  \E team \in TeamIds, p \in PlayerIds \cup {NoSuchPlayer} : Call(addPlayer(team, p))

CallRemovePlayer ==
  \E team \in TeamIds, p \in PlayerIds \cup {NoSuchPlayer} :
    Call(removePlayer(team, p))

NextTeam ==
  \/ CallCreateDefault
  \/ CallAddToRosterAnyId
  \/ CallLockRoster
  \/ CallAddPlayer
  \/ CallRemovePlayer
  \/ Respond

SpecTeam == InitTeam /\ [][NextTeam]_vars

(***************************************************************************)
(* Lineups: games are created and their lineups saved and read.            *)
(***************************************************************************)
(* Lineups that lineupSchema accepts: no key at all, empty arrays, an      *)
(* empty line among the lines, one, two and three keys.                    *)
LineupInputs ==
  { <<>>,
    [forwardLines |-> <<>>],
    [goalies |-> <<"X">>],
    [forwardLines |-> << <<"X", "Y">>, <<>> >>, goalies |-> <<"X">>],
    [defensePairs |-> << <<"Y">> >>, goalies |-> <<>>],
    [forwardLines |-> << <<"X">> >>, defensePairs |-> << <<"Y", "X">> >>,
     goalies |-> <<"Y", "X">>] }

CallSetLineup ==
  \E g \in GameIds, data \in LineupInputs : Call(setLineup(g, data))

CallGetLineup == \E g \in GameIds : Call(getLineup(g))

NextLineup ==
  \/ CallCreateDefault
  \/ CallSetLineup
  \/ CallGetLineup
  \/ Respond

SpecLineup == Init /\ [][NextLineup]_vars

(***************************************************************************)
(* Availability: games are created, time passes, and a user answers for    *)
(* the player of their profile.                                            *)
(***************************************************************************)
(* req.user.playerId: the profile of player X, and one of no player.       *)
ProfilePlayerIds == {"X", NoSuchPlayer}

AvailabilityInputs ==
  [status : {"AVAILABLE", "MAYBE"}, note : Optional({"note"})]

CallSetAvailability ==
  \E p \in ProfilePlayerIds, g \in GameIds, data \in AvailabilityInputs :
    Call(setAvailability(p, g, data))

(* The clock advances between requests.                                    *)
Tick ==
  /\ db.now < MaxClock
  /\ \A t \in Slots : reqs[t].pc = "idle"
  /\ db' = [db EXCEPT !.now = @ + 1]
  /\ reqs' = reqs

NextAvailability ==
  \/ CallCreateDefault
  \/ CallSetAvailability
  \/ Tick
  \/ Respond

SpecAvailability == Init /\ [][NextAvailability]_vars

(***************************************************************************)
(* Availability summary: players answer, join and leave teams, and the     *)
(* summary of a game is read.  Player X is not an active member of team B  *)
(* and can still answer for a game of B.                                   *)
(***************************************************************************)
CallGetAvailabilitySummary ==
  \E g \in GameIds : Call(getAvailabilitySummary(g))

CallSetAvailabilityAnyPlayer ==
  \E p \in PlayerIds, g \in GameIds, data \in AvailabilityInputs :
    /\ data.note = None
    /\ Call(setAvailability(p, g, data))

NextSummary ==
  \/ CallCreateDefault
  \/ CallSetAvailabilityAnyPlayer
  \/ CallAddPlayer
  \/ CallRemovePlayer
  \/ CallGetAvailabilitySummary
  \/ Respond

SpecSummary == Init /\ [][NextSummary]_vars

(***************************************************************************)
(* Availability next to rostering: the user whose profile is player Y, a   *)
(* member of both teams, declines games while games are created, rostered  *)
(* and moved.                                                              *)
(***************************************************************************)
CallSetUnavailable ==
  \E g \in GameIds :
    Call(setAvailability("Y", g, [status |-> "UNAVAILABLE", note |-> None]))

NextAdvisory ==
  \/ CallCreateDefault
  \/ CallSetUnavailable
  \/ CallAddToRoster
  \/ CallRemoveFromRoster
  \/ CallUpdateTime
  \/ Respond

SpecAdvisory == Init /\ [][NextAdvisory]_vars

(***************************************************************************)
(* All the writing operations side by side: games are created, moved,      *)
(* cancelled, locked and unlocked, rosters, lineups and availability are   *)
(* set, conflicts are queried and player X joins and leaves team B.        *)
(***************************************************************************)
CallCreateAtZero ==
  \E c \in CreateInputs :
    /\ c.startTime = Some(0)
    /\ c.endTime = None
    /\ Call(create(c.gameId, [teamId |-> c.teamId, startTime |-> c.startTime,
                              endTime |-> None, status |-> None]))

CallUpdateStart ==
  \E g \in GameIds, s \in Times \ {0} :
    Call(update(g, [NoData EXCEPT !.startTime = Some(s)]))

CallSetLineupGoalies == Call(setLineup("g1", [goalies |-> <<"X">>]))

CallCheckPlayerConflictNow ==
  \E p \in PlayerIds :
    Call(checkPlayerConflictCall(p, 0, DEFAULT_GAME_DURATION, None))

CallAddPlayerToB == Call(addPlayer("B", "X"))

CallRemovePlayerFromB == Call(removePlayer("B", "X"))

NextOperations ==
  \/ CallCreateAtZero
  \/ CallUpdateStart
  \/ CallDelete
  \/ CallLockRoster
  \/ CallUnlockRoster
  \/ CallAddToRoster
  \/ CallRemoveFromRoster
  \/ CallSetLineupGoalies
  \/ CallSetUnavailable
  \/ CallCheckPlayerConflictNow
  \/ CallAddPlayerToB
  \/ CallRemovePlayerFromB
  \/ Respond

SpecOperations == Init /\ [][NextOperations]_vars

(***************************************************************************)
(* checkPlayerConflict as a function of the store and its arguments: the   *)
(* store holds any games with endTime > startTime and any roster rows the  *)
(* operations can produce.                                                 *)
(***************************************************************************)
StoredGames ==
  [teamId : TeamIds, startTime : Times,
   endTime : 0..(MaxTime + DEFAULT_GAME_DURATION),
   status : {"SCHEDULED", "CANCELLED", "POSTPONED"},
   rosterLocked : {FALSE}]

InitConflict ==
  /\ reqs = [t \in Slots |-> Idle]
  /\ \E created \in {{}, {"g1"}, {"g1", "g2"}} :
       \E games \in [created -> StoredGames] :
         \E roster \in [GameIds \X PlayerIds -> {0, 1}] :
           /\ \A g \in created : games[g].teamId = HomeTeam(g)
           /\ \A g \in created : games[g].endTime > games[g].startTime
           /\ \A k \in DOMAIN roster :
                roster[k] > 0 =>
                  /\ k[1] \in created
                  /\ InitialTeamPlayer[<<k[2], HomeTeam(k[1])>>] = "active"
           /\ db = [EmptyDb EXCEPT !.games = games, !.gameRoster = roster]

CallCheckPlayerConflict ==
  \E p \in PlayerIds, s \in Times, e \in 0..(MaxTime + DEFAULT_GAME_DURATION),
     x \in Optional(GameIds) :
    Call(checkPlayerConflictCall(p, s, e, x))

NextConflict ==
  \/ CallCheckPlayerConflict
  \/ Respond

SpecConflict == InitConflict /\ [][NextConflict]_vars

(* The same with any stored interval: create and update store the times    *)
(* they are given, so endTime may be at or before startTime, and so may    *)
(* the proposed interval.                                                  *)
InitAnyInterval ==
  /\ reqs = [t \in Slots |-> Idle]
  /\ \E created \in {{}, {"g1"}, {"g1", "g2"}} :
       \E games \in [created -> StoredGames] :
         \E roster \in [GameIds \X PlayerIds -> {0, 1}] :
           /\ \A g \in created : games[g].teamId = HomeTeam(g)
           /\ \A g \in created : games[g].status # "POSTPONED"
           /\ \A k \in DOMAIN roster :
                roster[k] > 0 =>
                  /\ k[1] \in created
                  /\ InitialTeamPlayer[<<k[2], HomeTeam(k[1])>>] = "active"
           /\ db = [EmptyDb EXCEPT !.games = games, !.gameRoster = roster]

SpecAnyInterval == InitAnyInterval /\ [][NextConflict]_vars

(***************************************************************************)
(* Interleaved specification: up to MaxInFlight requests are in flight and *)
(* each action is one store call of one of them.  r.conc names the         *)
(* requests that were in flight when r started.                            *)
(***************************************************************************)
InFlight(t) == reqs[t].pc \notin {"idle", "done"}

Concurrent(t, u) == t # u /\ (u \in reqs[t].conc \/ t \in reqs[u].conc)

Start(t, r) ==
  /\ reqs[t].pc = "idle"
  /\ reqs' = [reqs EXCEPT ![t] = [r EXCEPT !.conc = {u \in Slots : InFlight(u)}]]
  /\ db' = db

StepReq ==
  \E t \in Slots :
    /\ InFlight(t)
    /\ \E x \in Step(db, reqs[t]) :
         /\ db' = x.db
         /\ reqs' = [reqs EXCEPT ![t] = x.r]

StartAddToRoster ==
  \E t \in Slots, g \in GameIds, p \in PlayerIds : Start(t, addToRoster(g, p))

(* A game update that moves the game to an explicit interval [s, e).       *)
MoveInputs ==
  {[NoData EXCEPT !.startTime = Some(s), !.endTime = Some(e)] :
     s \in Times, e \in Times}

StartUpdate ==
  \E t \in Slots, g \in GameIds, data \in {m \in MoveInputs :
                                            The(m.startTime) < The(m.endTime)} :
    Start(t, update(g, data))

(* Both games exist, each created without an explicit endTime.             *)
InitRace ==
  /\ reqs = [t \in Slots |-> Idle]
  /\ \E start \in [GameIds -> Times] :
       db = [EmptyDb EXCEPT !.games =
               [g \in GameIds |->
                  [teamId |-> HomeTeam(g), startTime |-> start[g],
                   endTime |-> start[g] + DEFAULT_GAME_DURATION,
                   status |-> "SCHEDULED", rosterLocked |-> FALSE]]]

NextRace ==
  \/ StartAddToRoster
  \/ StartUpdate
  \/ StepReq
  \/ Respond

SpecRace == InitRace /\ [][NextRace]_vars

(* Roster mutations in flight while the roster is locked and unlocked.     *)
StartRemoveFromRoster ==
  \E t \in Slots, g \in GameIds, p \in PlayerIds :
    Start(t, removeFromRoster(g, p))

StartLockRoster == \E t \in Slots, g \in GameIds : Start(t, lockRoster(g))

StartUnlockRoster == \E t \in Slots, g \in GameIds : Start(t, unlockRoster(g))

NextLockRace ==
  \/ StartAddToRoster
  \/ StartRemoveFromRoster
  \/ StartLockRoster
  \/ StartUnlockRoster
  \/ StepReq
  \/ Respond

SpecLockRace == InitRace /\ [][NextLockRace]_vars

(***************************************************************************)
(* Vocabulary of the properties                                            *)
(***************************************************************************)
(* The error kinds of the design, as the code raises them.                 *)
RosterLockedError == ApiError(400, "Roster is locked")

NotOnTeamError == ApiError(400, "Player is not on this team")

AlreadyRosteredError == ConflictError("Player is already on the roster", {})

SchedulingConflictError(g) == ConflictError("Player is already rostered for", {g})

TimeChangeConflictError(n) == ConflictError("Cannot change game time", {n})

Completed(t, op) == reqs[t].pc = "done" /\ reqs[t].op = op

Succeeded(t) == reqs[t].pc = "done" /\ reqs[t].err = None

Counted(d, g) == d.games[g].status \notin NotCounted

GamesOverlap(d, g1, g2) ==
  HalfOpenOverlap(d.games[g1].startTime, d.games[g1].endTime,
                  d.games[g2].startTime, d.games[g2].endTime)

WellFormed(d, g) == d.games[g].endTime > d.games[g].startTime

(* The counted games other than g on which p is rostered.                  *)
Commitments(d, p, g) ==
  {h \in DOMAIN d.games : h # g /\ Rostered(d, h, p) /\ Counted(d, h)}

(* p is rostered on g and on another game, both counted, that overlap.     *)
DoubleBookedOn(d, p, g) ==
  /\ g \in DOMAIN d.games
  /\ Rostered(d, g, p)
  /\ Counted(d, g)
  /\ \E h \in Commitments(d, p, g) : GamesOverlap(d, g, h)

RosterRow(g, p) == <<"gameRoster", g, p>>

(***************************************************************************)
(* C1: after any sequence of AddToRoster, RemoveFromRoster, UpdateGameTime *)
(* and Cancel calls, no player has roster rows on two distinct games that  *)
(* both have a status outside {CANCELLED, POSTPONED} and whose stored      *)
(* intervals overlap (s1 < e2 and s2 < e1).                                *)
(***************************************************************************)
C1_NoDoubleBooking ==
  \A p \in PlayerIds, g \in GameIds : ~DoubleBookedOn(db, p, g)

(***************************************************************************)
(* C2: when two AddToRoster calls for the same player on two different     *)
(* non-cancelled games with overlapping intervals run concurrently, at     *)
(* most one of them succeeds.                                              *)
(***************************************************************************)
C2_ConcurrentAddsExclusive ==
  \A t, u \in Slots :
    ( /\ Concurrent(t, u)
      /\ Completed(t, "addToRoster") /\ Completed(u, "addToRoster")
      /\ reqs[t].playerId = reqs[u].playerId
      /\ reqs[t].gameId # reqs[u].gameId
      /\ Counted(db, The(reqs[t].gameId)) /\ Counted(db, The(reqs[u].gameId))
      /\ GamesOverlap(db, The(reqs[t].gameId), The(reqs[u].gameId)) )
    => ~(Succeeded(t) /\ Succeeded(u))

(***************************************************************************)
(* C3: under no interleaving of an UpdateGameTime of game G with a         *)
(* concurrent AddToRoster for G does the added player end up rostered on   *)
(* G and on another counted game that overlaps G's new interval.           *)
(***************************************************************************)
C3_UpdateAtomicWithAdd ==
  \A t, u \in Slots :
    ( /\ Concurrent(t, u)
      /\ Completed(t, "update") /\ Succeeded(t)
      /\ Completed(u, "addToRoster") /\ Succeeded(u)
      /\ reqs[t].gameId = reqs[u].gameId )
    => ~DoubleBookedOn(db, The(reqs[u].playerId), The(reqs[u].gameId))

(***************************************************************************)
(* C4: when two AddToRoster calls for the same (gameId, playerId) pair run *)
(* concurrently they never both succeed: one row exists, and when one call *)
(* succeeds the other is answered as an AlreadyRosteredError is.           *)
(***************************************************************************)
C4_ConcurrentDuplicateAdd ==
  \A t, u \in Slots :
    ( /\ Concurrent(t, u)
      /\ Completed(t, "addToRoster") /\ Completed(u, "addToRoster")
      /\ reqs[t].gameId = reqs[u].gameId
      /\ reqs[t].playerId = reqs[u].playerId
      /\ Succeeded(t) )
    => /\ ~Succeeded(u)
       /\ db.gameRoster[<<The(reqs[t].gameId), The(reqs[t].playerId)>>] = 1
       /\ errorHandler(The(reqs[u].err)) = errorHandler(AlreadyRosteredError)

(***************************************************************************)
(* C5: for every player, proposed interval [S, E) with E > S, optional     *)
(* excludeGameId and store in which every game has endTime > startTime,    *)
(* checkPlayerConflict returns a game iff the player has a roster row on a *)
(* game g with status outside {CANCELLED, POSTPONED}, g # excludeGameId,   *)
(* g.startTime < E and S < g.endTime; the game returned is such a game.    *)
(***************************************************************************)
HalfOpenConflicts(d, p, S, E, exclude) ==
  {g \in DOMAIN d.games :
     /\ Rostered(d, g, p)
     /\ Counted(d, g)
     /\ g \notin exclude
     /\ d.games[g].startTime < E
     /\ S < d.games[g].endTime}

C5_ThreeCasesAreHalfOpenOverlap ==
  \A t \in Slots :
    LET r == reqs[t] IN
    ( /\ Completed(t, "checkPlayerConflict")
      /\ The(r.newEndTime) > The(r.newStartTime)
      /\ \A g \in DOMAIN db.games : WellFormed(db, g) )
    => LET expected == HalfOpenConflicts(db, The(r.playerId), The(r.newStartTime),
                                         The(r.newEndTime), r.gameId)
       IN /\ (r.result # None) <=> (expected # {})
          /\ r.result \subseteq expected

(* A conflict is reported by the third case alone: the proposed interval   *)
(* strictly contains the existing game.                                    *)
C5_Witness ==
  \E t \in Slots :
    LET r == reqs[t] IN
    /\ Completed(t, "checkPlayerConflict")
    /\ r.result # None
    /\ \A g \in DOMAIN db.games : WellFormed(db, g)
    /\ db.games[The(r.result)].startTime > The(r.newStartTime)
    /\ db.games[The(r.result)].endTime < The(r.newEndTime)

(***************************************************************************)
(* C6: back-to-back games are not a conflict in either direction: an       *)
(* AddToRoster to a game that starts exactly when a game of the player     *)
(* ends, or ends exactly when it starts, is not rejected for a scheduling  *)
(* conflict with that game.                                                *)
(***************************************************************************)
BackToBack(d, g1, g2) ==
  \/ d.games[g2].startTime = d.games[g1].endTime
  \/ d.games[g2].endTime = d.games[g1].startTime

C6_BackToBackNotConflict ==
  \A t \in Slots, g1 \in DOMAIN db.games :
    ( /\ Completed(t, "addToRoster")
      /\ reqs[t].err = Some(SchedulingConflictError(g1)) )
    => ~BackToBack(db, g1, The(reqs[t].gameId))

(* With endTime > startTime on both games the boundary is exclusive: the   *)
(* rejections C6 is violated by all involve a game with endTime <=         *)
(* startTime.                                                              *)
BackToBackWellFormed ==
  \A t \in Slots, g1 \in DOMAIN db.games :
    ( /\ Completed(t, "addToRoster")
      /\ reqs[t].err = Some(SchedulingConflictError(g1))
      /\ WellFormed(db, g1) /\ WellFormed(db, The(reqs[t].gameId)) )
    => ~BackToBack(db, g1, The(reqs[t].gameId))

(***************************************************************************)
(* C7: AddToRoster(g2, p) fails with a ConflictError that refers to a      *)
(* counted game of p other than g2, and creates no roster row, whenever p  *)
(* has a roster row on another counted game whose interval overlaps g2's   *)
(* (g2 existing and unlocked, p an active member of g2's team); the game   *)
(* referred to overlaps g2 whenever both intervals have end > start.       *)
(***************************************************************************)
AddPreconditions(t) ==
  LET r == reqs[t]
      g == The(r.gameId)
  IN /\ Completed(t, "addToRoster")
     /\ g \in DOMAIN db.games
     /\ ~db.games[g].rosterLocked
     /\ db.teamPlayer[<<The(r.playerId), db.games[g].teamId>>] = "active"

C7_OverlapRejected ==
  \A t \in Slots :
    LET r == reqs[t]
        g2 == The(r.gameId)
        p == The(r.playerId)
    IN ( /\ AddPreconditions(t)
         /\ \E g1 \in Commitments(db, p, g2) : GamesOverlap(db, g1, g2) )
       => /\ r.wrote = {}
          /\ \E g1 \in Commitments(db, p, g2) :
               /\ r.err = Some(SchedulingConflictError(g1))
               /\ (WellFormed(db, g1) /\ WellFormed(db, g2))
                    => GamesOverlap(db, g1, g2)

(* The scenario: the new game starts inside the game the player is on.     *)
C7_Witness ==
  \E t \in Slots, g1 \in DOMAIN db.games :
    LET g2 == The(reqs[t].gameId) IN
    /\ AddPreconditions(t)
    /\ reqs[t].err = Some(SchedulingConflictError(g1))
    /\ db.games[g1].startTime < db.games[g2].startTime
    /\ db.games[g2].startTime < db.games[g1].endTime
    /\ db.games[g1].endTime <= db.games[g2].endTime
    /\ reqs[t].wrote = {}

(***************************************************************************)
(* C8: roster rows on CANCELLED or POSTPONED games never cause a conflict: *)
(* an AddToRoster(g2, p) succeeds and creates exactly the row (g2, p) when *)
(* g2 is unlocked, p is an active member, the row does not exist yet and   *)
(* every other game on which p is rostered is CANCELLED or POSTPONED, even *)
(* when those games overlap g2.                                            *)
(***************************************************************************)
(* The row (g, p) existed when the completed call t started.               *)
RowExistedBefore(t, g, p) ==
  IF RosterRow(g, p) \in reqs[t].wrote
  THEN ~Rostered(db, g, p)
  ELSE Rostered(db, g, p)

C8_CancelledFreesTime ==
  \A t \in Slots :
    LET r == reqs[t]
        g2 == The(r.gameId)
        p == The(r.playerId)
    IN ( /\ AddPreconditions(t)
         /\ ~RowExistedBefore(t, g2, p)
         /\ Commitments(db, p, g2) = {} )
       => /\ r.err = None
          /\ Rostered(db, g2, p)
          /\ r.wrote = {RosterRow(g2, p)}

C8_Witness ==
  \E t \in Slots, g1 \in DOMAIN db.games :
    LET g2 == The(reqs[t].gameId)
        p == The(reqs[t].playerId)
    IN /\ AddPreconditions(t)
       /\ Succeeded(t)
       /\ g1 # g2
       /\ Rostered(db, g1, p)
       /\ db.games[g1].status = "CANCELLED"
       /\ GamesOverlap(db, g1, g2)

(***************************************************************************)
(* C9: while a game's rosterLocked flag is true, every AddToRoster and     *)
(* every RemoveFromRoster on it fails with RosterLockedError and changes   *)
(* nothing; on an unlocked game a RemoveFromRoster of a player who is on   *)
(* the roster succeeds and removes exactly that row.                       *)
(***************************************************************************)
C9_LockedRosterIsFrozen ==
  \A t \in Slots :
    LET r == reqs[t]
        g == The(r.gameId)
        p == The(r.playerId)
    IN /\ ( /\ Completed(t, "addToRoster") \/ Completed(t, "removeFromRoster")
            /\ g \in DOMAIN db.games
            /\ db.games[g].rosterLocked )
          => (r.err = Some(RosterLockedError) /\ r.wrote = {})
       /\ ( /\ Completed(t, "removeFromRoster")
            /\ g \in DOMAIN db.games
            /\ ~db.games[g].rosterLocked
            /\ RowExistedBefore(t, g, p) )
          => /\ r.err = None
             /\ r.wrote = {RosterRow(g, p)}
             /\ ~Rostered(db, g, p)

(* A removal is refused on a locked game whose roster holds the player.    *)
C9_Witness ==
  \E t \in Slots :
    LET g == The(reqs[t].gameId) IN
    /\ Completed(t, "removeFromRoster")
    /\ reqs[t].err = Some(RosterLockedError)
    /\ Rostered(db, g, The(reqs[t].playerId))
    /\ Cardinality(RosterOf(db, g)) = 2

(***************************************************************************)
(* C10: UpdateGameTime is all-or-nothing: if at least one rostered player  *)
(* of game G has a roster row on another counted game that overlaps the    *)
(* effective new interval, the update fails with ConflictError and writes  *)
(* nothing: startTime, endTime and every other field sent stay as before.  *)
(***************************************************************************)
(* The effective new interval of a completed update carrying a time: a     *)
(* field the request does not carry is not written, so it is read here as  *)
(* it was when the call started.                                           *)
EffectiveStart(t) ==
  IF reqs[t].data.startTime # None
  THEN The(reqs[t].data.startTime)
  ELSE db.games[The(reqs[t].gameId)].startTime

EffectiveEnd(t) ==
  IF reqs[t].data.endTime # None
  THEN The(reqs[t].data.endTime)
  ELSE IF reqs[t].data.startTime # None
  THEN The(reqs[t].data.startTime) + DEFAULT_GAME_DURATION
  ELSE db.games[The(reqs[t].gameId)].endTime

PlayersInConflict(t) ==
  LET g == The(reqs[t].gameId) IN
  {p \in RosterOf(db, g) :
     \E h \in Commitments(db, p, g) :
       HalfOpenOverlap(db.games[h].startTime, db.games[h].endTime,
                       EffectiveStart(t), EffectiveEnd(t))}

IsTimeUpdate(t) ==
  /\ Completed(t, "update")
  /\ The(reqs[t].gameId) \in DOMAIN db.games
  /\ reqs[t].data.startTime # None \/ reqs[t].data.endTime # None

C10_UpdateAllOrNothing ==
  \A t \in Slots :
    (IsTimeUpdate(t) /\ PlayersInConflict(t) # {})
    => /\ \E n \in 1..Cardinality(PlayerIds) :
            reqs[t].err = Some(TimeChangeConflictError(n))
       /\ reqs[t].wrote = {}

(* Scenario D: two players on the game, one of them committed elsewhere;   *)
(* the update carries a new start and another field.                       *)
C10_Witness ==
  \E t \in Slots :
    /\ IsTimeUpdate(t)
    /\ reqs[t].data.startTime # None
    /\ reqs[t].data.endTime = None
    /\ reqs[t].data.status # None
    /\ Cardinality(RosterOf(db, The(reqs[t].gameId))) = 2
    /\ Cardinality(PlayersInConflict(t)) = 1
    /\ reqs[t].err = Some(TimeChangeConflictError(1))

(***************************************************************************)
(* C11: after a successful UpdateGameTime the stored interval of the game  *)
(* is the effective new interval that was conflict-checked (newStartTime,  *)
(* newEndTime of the update); with only a new start, the stored endTime is *)
(* newStart + the default duration.                                        *)
(***************************************************************************)
C11_StoredIsChecked ==
  \A t \in Slots :
    (IsTimeUpdate(t) /\ Succeeded(t))
    => /\ db.games[The(reqs[t].gameId)].startTime = The(reqs[t].newStartTime)
       /\ db.games[The(reqs[t].gameId)].endTime = The(reqs[t].newEndTime)

(***************************************************************************)
(* C12: every stored game has endTime > startTime in every reachable       *)
(* state: no creation and no update persists endTime <= startTime.         *)
(***************************************************************************)
C12_EndAfterStart ==
  \A g \in DOMAIN db.games : WellFormed(db, g)

(***************************************************************************)
(* C13: GameRoster never holds two rows for the same (game, player) pair,  *)
(* and an AddToRoster for a pair that already has a row (game unlocked,    *)
(* player an active member, no other overlapping commitment) fails with    *)
(* AlreadyRosteredError and leaves the roster unchanged.                   *)
(***************************************************************************)
C13_OneRowPerPair ==
  /\ \A k \in DOMAIN db.gameRoster : db.gameRoster[k] <= 1
  /\ \A t \in Slots :
       LET r == reqs[t]
           g == The(r.gameId)
           p == The(r.playerId)
       IN ( /\ AddPreconditions(t)
            /\ RowExistedBefore(t, g, p)
            /\ ~\E h \in Commitments(db, p, g) : GamesOverlap(db, h, g) )
          => /\ r.err = Some(AlreadyRosteredError)
             /\ r.wrote = {}

(* When every stored game has endTime > startTime the second add is       *)
(* answered as C13 says: the rejections that violate C13 all involve a     *)
(* game with endTime <= startTime.                                         *)
OneRowPerPairWellFormed ==
  \A t \in Slots :
    LET r == reqs[t]
        g == The(r.gameId)
        p == The(r.playerId)
    IN ( /\ AddPreconditions(t)
         /\ RowExistedBefore(t, g, p)
         /\ \A h \in DOMAIN db.games : WellFormed(db, h)
         /\ ~\E h \in Commitments(db, p, g) : GamesOverlap(db, h, g) )
       => /\ r.err = Some(AlreadyRosteredError)
          /\ r.wrote = {}

(***************************************************************************)
(* C14: AddToRoster(g, p) creates no roster row and fails whenever p has   *)
(* no active membership of g's team, with NotOnTeamError when g is         *)
(* unlocked, also when p was on the team and was removed; a roster row is  *)
(* only created for an active member of the game's team.                   *)
(***************************************************************************)
IsActiveMember(d, p, team) ==
  <<p, team>> \in DOMAIN d.teamPlayer /\ d.teamPlayer[<<p, team>>] = "active"

C15_MissingIsNotFound ==
  \A t \in Slots :
    LET r == reqs[t]
        g == The(r.gameId)
        p == The(r.playerId)
    IN Completed(t, "addToRoster")
       => /\ g \notin DOMAIN db.games
               => (r.err = Some(NotFoundError("Game")) /\ r.wrote = {})
          /\ (g \in DOMAIN db.games /\ ~db.games[g].rosterLocked /\ p \notin PlayerIds)
               => (r.err # None /\ The(r.err).name = "NotFoundError" /\ r.wrote = {})

(***************************************************************************)
(* C16: RemoveFromRoster on an existing, unlocked game for a pair that has *)
(* no roster row does not succeed: the caller is answered with a not-found *)
(* error (404) and nothing is changed.                                     *)
(***************************************************************************)
C16_RemoveAbsentRowIsNotFound ==
  \A t \in Slots :
    LET r == reqs[t]
        g == The(r.gameId)
        p == The(r.playerId)
    IN ( /\ Completed(t, "removeFromRoster")
         /\ g \in DOMAIN db.games
         /\ ~db.games[g].rosterLocked
         /\ ~RowExistedBefore(t, g, p) )
       => /\ r.err # None
          /\ errorHandler(The(r.err)).status = 404
          /\ r.wrote = {}

(* The removal of a player who is not on a roster that holds the other     *)
(* player is answered with Prisma's P2025, "Record not found".             *)
C16_Witness ==
  \E t \in Slots :
    LET g == The(reqs[t].gameId) IN
    /\ Completed(t, "removeFromRoster")
    /\ reqs[t].err = Some(PrismaClientKnownRequestError("P2025"))
    /\ errorHandler(The(reqs[t].err)).error = "Record not found"
    /\ ~Rostered(db, g, The(reqs[t].playerId))
    /\ RosterOf(db, g) # {}

(***************************************************************************)
(* C17: Lock and Unlock are idempotent on an existing game: each succeeds  *)
(* whatever the flag was, leaves rosterLocked true (Lock) or false         *)
(* (Unlock), and changes nothing but the rosterLocked flag of that game.   *)
(***************************************************************************)
C17_LockUnlockIdempotent ==
  \A t \in Slots :
    LET r == reqs[t]
        g == The(r.gameId)
    IN /\ (Completed(t, "lockRoster") /\ g \in DOMAIN db.games)
          => /\ r.err = None
             /\ db.games[g].rosterLocked
             /\ r.wrote \subseteq {<<"game", g, "rosterLocked">>}
       /\ (Completed(t, "unlockRoster") /\ g \in DOMAIN db.games)
          => /\ r.err = None
             /\ ~db.games[g].rosterLocked
             /\ r.wrote \subseteq {<<"game", g, "rosterLocked">>}

(* Lock after Lock: the second call succeeds and changes nothing.          *)
C17_Witness ==
  \E t \in Slots :
    /\ Completed(t, "lockRoster")
    /\ Succeeded(t)
    /\ The(reqs[t].gameId) \in DOMAIN db.games
    /\ db.games[The(reqs[t].gameId)].rosterLocked
    /\ reqs[t].wrote = {}

(***************************************************************************)
(* C18: Cancel of an existing game only sets its status to CANCELLED: the  *)
(* game still exists, its roster rows are kept, its startTime, endTime and *)
(* rosterLocked are unchanged; and no operation ever removes a Game.       *)
(***************************************************************************)
CancelOnlySetsStatus ==
  \A t \in Slots :
    LET r == reqs[t]
        g == The(r.gameId)
    IN (Completed(t, "delete") /\ g \in DOMAIN db.games)
       => /\ r.err = None
          /\ db.games[g].status = "CANCELLED"
          /\ r.wrote \subseteq {<<"game", g, "status">>}

C18_CancelKeepsTheGame ==
  /\ []CancelOnlySetsStatus
  /\ [][DOMAIN db.games \subseteq DOMAIN db.games']_vars

(* A locked game with a rostered player is cancelled.                      *)
C18_Witness ==
  \E t \in Slots :
    LET g == The(reqs[t].gameId) IN
    /\ Completed(t, "delete")
    /\ Succeeded(t)
    /\ reqs[t].wrote = {<<"game", g, "status">>}
    /\ db.games[g].rosterLocked
    /\ RosterOf(db, g) # {}

(***************************************************************************)
(* C19: SetLineup(g, cfg) on an existing game followed by GetLineup(g)     *)
(* returns a structure equal to cfg; a game has at most one Lineup, so     *)
(* GetLineup returns the configuration of the last SetLineup, and null for *)
(* a game on which SetLineup was never called.                             *)
(***************************************************************************)
C19_LineupRoundTrip ==
  /\ \A g \in GameIds : Cardinality(db.lineup[g]) <= 1
  /\ \A t \in Slots :
       LET r == reqs[t]
           g == The(r.gameId)
       IN /\ Completed(t, "getLineup")
               => (r.err = None /\ r.result = db.history.lineup[g] /\ r.wrote = {})
          /\ (Completed(t, "setLineup") /\ g \in DOMAIN db.games)
               => /\ r.err = None
                  /\ db.history.lineup[g] = r.input
                  /\ Cardinality(db.lineup[g]) = 1
                  /\ r.wrote \subseteq {<<"lineup", g, "configuration">>}
          /\ (Completed(t, "setLineup") /\ g \notin DOMAIN db.games)
               => (r.err = Some(NotFoundError("Game")) /\ r.wrote = {})

(* GetLineup returns the second of two lineups saved for the game: nested  *)
(* arrays, one of them empty.                                              *)
C19_Witness ==
  \E t \in Slots :
    LET g == The(reqs[t].gameId) IN
    /\ Completed(t, "getLineup")
    /\ reqs[t].result # None
    /\ DOMAIN The(reqs[t].result) = {"forwardLines", "goalies"}
    /\ The(reqs[t].result).forwardLines = << <<"X", "Y">>, <<>> >>
    /\ db.lineup["g1"] # {} /\ db.lineup["g2"] # {}
    /\ db.lineup["g1"] # db.lineup["g2"]

(***************************************************************************)
(* C20: after any sequence of SetAvailability calls for a (player, game)   *)
(* pair there is exactly one PlayerAvailability row for the pair, its      *)
(* status is the status of the last call and its respondedAt the time of   *)
(* the last call, also when the status did not change.                     *)
(***************************************************************************)
C20_LastResponseWins ==
  /\ \A k \in DOMAIN db.availability :
       /\ Cardinality(db.availability[k]) <= 1
       /\ {[status |-> row.status, respondedAt |-> row.respondedAt] :
             row \in db.availability[k]} = db.history.availability[k]
  /\ \A t \in Slots :
       LET r == reqs[t]
           g == The(r.gameId)
           p == The(r.playerId)
       IN (Completed(t, "setAvailability") /\ g \in DOMAIN db.games /\ p \in PlayerIds)
          => /\ r.err = None
             /\ Cardinality(db.availability[<<g, p>>]) = 1
             /\ db.history.availability[<<g, p>>] =
                  {[status |-> The(r.input).status, respondedAt |-> db.now]}
             /\ r.wrote \subseteq {<<"availability", g, p>>}

(* The same status is sent again at a later time, without a note.          *)
C20_Witness ==
  \E t \in Slots :
    LET r == reqs[t]
        k == <<The(r.gameId), The(r.playerId)>>
    IN /\ Completed(t, "setAvailability")
       /\ Succeeded(t)
       /\ \E old \in r.result :
            /\ old.status = The(r.input).status
            /\ old.respondedAt < db.now
       /\ \E row \in db.availability[k] : row.respondedAt = db.now

(***************************************************************************)
(* C21: GetSummary(g).total is the number of active memberships of g's     *)
(* team at query time, and pending is total minus the number of distinct   *)
(* players that have an availability row for g, whether or not those       *)
(* players are active members of g's team.                                 *)
(***************************************************************************)
ActiveMembers(d, g) ==
  {p \in PlayerIds : IsActiveMember(d, p, d.games[g].teamId)}

Responders(d, g) == {p \in PlayerIds : d.availability[<<g, p>>] # {}}

C21_SummaryCounts ==
  \A t \in Slots :
    LET g == The(reqs[t].gameId) IN
    (Completed(t, "getAvailabilitySummary") /\ g \in DOMAIN db.games)
    => /\ reqs[t].err = None
       /\ The(reqs[t].result).total = Cardinality(ActiveMembers(db, g))
       /\ The(reqs[t].result).pending =
            Cardinality(ActiveMembers(db, g)) - Cardinality(Responders(db, g))

(* C21 as the code has it: pending is the number of active members of g's  *)
(* team that have no availability row for g, that is total minus the       *)
(* number of responders that are active members; a responder that is not   *)
(* an active member of the team is not subtracted.                         *)
C21_PendingCountsMembers ==
  \A t \in Slots :
    LET g == The(reqs[t].gameId) IN
    (Completed(t, "getAvailabilitySummary") /\ g \in DOMAIN db.games)
    => /\ reqs[t].err = None
       /\ reqs[t].wrote = {}
       /\ The(reqs[t].result).total = Cardinality(ActiveMembers(db, g))
       /\ The(reqs[t].result).pending =
            Cardinality(ActiveMembers(db, g) \ Responders(db, g))
       /\ The(reqs[t].result).pending =
            Cardinality(ActiveMembers(db, g))
              - Cardinality(Responders(db, g) \cap ActiveMembers(db, g))

(* One member has answered, one has not, and a player who is not an active *)
(* member has answered too.                                                *)
C21_Witness ==
  \E t \in Slots :
    LET g == The(reqs[t].gameId) IN
    /\ Completed(t, "getAvailabilitySummary")
    /\ g \in DOMAIN db.games
    /\ Responders(db, g) \ ActiveMembers(db, g) # {}
    /\ Responders(db, g) \cap ActiveMembers(db, g) # {}
    /\ The(reqs[t].result).pending = 0
    /\ The(reqs[t].result).total = 1

(***************************************************************************)
(* C22: availability is advisory only.  For two stores that differ only in *)
(* their PlayerAvailability rows, every AddToRoster, RemoveFromRoster and  *)
(* UpdateGameTime call has the same outcome and leaves the same GameRoster *)
(* and Game state; a player whose answer is UNAVAILABLE can be rostered.   *)
(***************************************************************************)
WithoutAvailability(d) ==
  [d EXCEPT !.availability = EmptyDb.availability,
            !.history.availability = EmptyDb.history.availability]

RosterCalls ==
  {addToRoster(g, p) : g \in GameIds, p \in PlayerIds}
    \cup {removeFromRoster(g, p) : g \in GameIds, p \in PlayerIds}
    \cup {update(g, data) : g \in GameIds,
                            data \in {u \in UpdateInputs :
                                        /\ u.status = None
                                        /\ u.startTime # None \/ u.endTime # None}}

Outcomes(d, r) ==
  {[err |-> x.r.err, result |-> x.r.result, wrote |-> x.r.wrote,
    games |-> x.db.games, gameRoster |-> x.db.gameRoster] : x \in Run(d, r)}

C22_AvailabilityIsAdvisory ==
  /\ (\A t \in Slots : reqs[t].pc = "idle")
       => \A r \in RosterCalls :
            Outcomes(db, r) = Outcomes(WithoutAvailability(db), r)
  /\ \A t \in Slots :
       reqs[t].op \in {"addToRoster", "removeFromRoster", "update"}
       => \A c \in reqs[t].wrote : c[1] # "availability"

(* A player who declined a game has just been added to its roster.         *)
C22_Witness ==
  \E t \in Slots, g \in DOMAIN db.games, p \in PlayerIds :
    /\ Completed(t, "addToRoster") /\ Succeeded(t)
    /\ reqs[t].gameId = Some(g) /\ reqs[t].playerId = Some(p)
    /\ RosterRow(g, p) \in reqs[t].wrote
    /\ \E a \in db.availability[<<g, p>>] : a.status = "UNAVAILABLE"
    /\ Rostered(db, g, p)

(***************************************************************************)
(* C23: AddToRoster and RemoveFromRoster are the only operations that      *)
(* change GameRoster rows: create, update, Cancel, Lock, Unlock,           *)
(* SetLineup, SetAvailability, the conflict checks and the team            *)
(* add/remove leave every roster row as it was.                            *)
(***************************************************************************)
RosterOperations == {"addToRoster", "removeFromRoster"}

RosterWrittenByRosterOperations ==
  \A t \in Slots :
    (\E c \in reqs[t].wrote : c[1] = "gameRoster")
    => reqs[t].op \in RosterOperations

C23_OnlyRosterOperationsWriteRoster ==
  /\ []RosterWrittenByRosterOperations
  /\ [][db'.gameRoster # db.gameRoster
          => \E t \in Slots :
               /\ reqs[t].pc = "idle"
               /\ reqs'[t].op \in RosterOperations]_vars

(* A player leaves a team while on the roster of one of its games, and the *)
(* roster row stays.                                                       *)
C23_Witness ==
  \E t \in Slots :
    /\ Completed(t, "removePlayer") /\ Succeeded(t)
    /\ reqs[t].wrote # {}
    /\ \E g \in DOMAIN db.games :
         /\ db.games[g].teamId = The(reqs[t].teamId)
         /\ Rostered(db, g, The(reqs[t].playerId))
         /\ db.games[g].status = "CANCELLED"
    /\ db.lineup["g1"] # {}

(***************************************************************************)
(* C24: UpdateGameTime on a game G never reports a conflict caused by G's  *)
(* own roster rows: when no rostered player has a row on a different       *)
(* counted game that overlaps the effective new interval, the update       *)
(* succeeds, even when the new interval overlaps G's previous interval.    *)
(***************************************************************************)
C24_OwnRowsNeverConflict ==
  \A t \in Slots :
    (IsTimeUpdate(t) /\ PlayersInConflict(t) = {})
    => reqs[t].err = None

(* The same with end after start on the new interval and on every stored   *)
(* game.                                                                   *)
OwnRowsNeverConflictWellFormed ==
  \A t \in Slots :
    ( /\ IsTimeUpdate(t)
      /\ PlayersInConflict(t) = {}
      /\ EffectiveEnd(t) > EffectiveStart(t)
      /\ \A h \in DOMAIN db.games \ {The(reqs[t].gameId)} : WellFormed(db, h) )
    => reqs[t].err = None

(***************************************************************************)
(* C25: getPlayersWithConflicts returns a map whose key set is exactly the *)
(* set of the given players for which checkPlayerConflict is non-null;     *)
(* UpdateGameTime is rejected if and only if that set is non-empty, the    *)
(* count in the ConflictError is its size, and an update of a game with    *)
(* an empty roster is never rejected for conflicts.                        *)
(***************************************************************************)
PlayersWithConflicts(t) ==
  LET g == The(reqs[t].gameId) IN
  {p \in RosterOf(db, g) :
     checkPlayerConflict(db, p, EffectiveStart(t), EffectiveEnd(t), Some(g)) # {}}

C25_ConflictMapIsExact ==
  \A t \in Slots :
    IsTimeUpdate(t)
    => /\ reqs[t].conflicts = PlayersWithConflicts(t)
       /\ IF PlayersWithConflicts(t) # {}
          THEN /\ reqs[t].err =
                    Some(TimeChangeConflictError(Cardinality(PlayersWithConflicts(t))))
               /\ reqs[t].wrote = {}
          ELSE reqs[t].err = None
       /\ RosterOf(db, The(reqs[t].gameId)) = {} => reqs[t].err = None

(* Of the two rostered players of the game, exactly Y is committed         *)
(* elsewhere at the new time, given with an explicit end.                  *)
C25_Witness ==
  \E t \in Slots :
    /\ IsTimeUpdate(t)
    /\ reqs[t].data.endTime # None
    /\ RosterOf(db, The(reqs[t].gameId)) = {"X", "Y"}
    /\ PlayersWithConflicts(t) = {"Y"}
    /\ reqs[t].conflicts = {"Y"}
    /\ reqs[t].err = Some(TimeChangeConflictError(1))

(***************************************************************************)
(* C26: once a game is CANCELLED its roster is frozen: no later            *)
(* AddToRoster or RemoveFromRoster changes its roster rows, whatever       *)
(* rosterLocked is.                                                        *)
(***************************************************************************)
C26_CancelledRosterIsFrozen ==
  \A t \in Slots :
    \A c \in reqs[t].wrote :
      (reqs[t].op \in RosterOperations /\ c[1] = "gameRoster")
      => db.games[c[2]].status # "CANCELLED"

(***************************************************************************)
(* C27: a status update that takes a game from CANCELLED or POSTPONED back *)
(* to a counted status (SCHEDULED, IN_PROGRESS, COMPLETED) preserves       *)
(* no-double-booking: it is accepted only if no rostered player of the     *)
(* game has a row on another counted game that overlaps it.                *)
(***************************************************************************)
C27_ReactivationIsChecked ==
  \A t \in Slots :
    LET g == The(reqs[t].gameId) IN
    ( /\ Completed(t, "update") /\ Succeeded(t)
      /\ reqs[t].data.status # None
      /\ The(reqs[t].data.status) \notin NotCounted
      /\ <<"game", g, "status">> \in reqs[t].wrote )
    => \A p \in RosterOf(db, g) : ~DoubleBookedOn(db, p, g)

(***************************************************************************)
(* C28: Lock is effective against roster mutations in flight: under every  *)
(* interleaving of Lock(g) with a concurrent AddToRoster or                *)
(* RemoveFromRoster, no roster row of g is created or deleted after        *)
(* Lock(g) has completed and before a later Unlock(g) completes.           *)
(***************************************************************************)
C28_LockStopsInFlightMutations ==
  [][\A k \in GameIds \X PlayerIds :
       db'.gameRoster[k] # db.gameRoster[k]
       => ~(k[1] \in DOMAIN db.games /\ db.games[k[1]].rosterLocked)]_vars

(***************************************************************************)
(* C29: with atomic operations, no player has roster rows on two counted   *)
(* games whose stored intervals overlap, in every state reachable using    *)
(* only create, AddToRoster, RemoveFromRoster, Cancel, Lock, Unlock and    *)
(* game updates that supply an explicit endTime (with or without a         *)
(* startTime) and do not change the status.                                *)
(***************************************************************************)
C29_NoDoubleBookingWithExplicitEnd ==
  \A p \in PlayerIds, g \in DOMAIN db.games :
    \A h \in Commitments(db, p, g) :
      (Rostered(db, g, p) /\ Counted(db, g)) => ~GamesOverlap(db, g, h)

(* A game with a rostered player who is committed to another counted game  *)
(* has just been moved to a new start and end, next to that game.          *)
C29_Witness ==
  \E t \in Slots :
    LET g == The(reqs[t].gameId) IN
    /\ IsTimeUpdate(t) /\ Succeeded(t)
    /\ reqs[t].data.startTime # None /\ reqs[t].data.endTime # None
    /\ {<<"game", g, "startTime">>, <<"game", g, "endTime">>} \subseteq reqs[t].wrote
    /\ WellFormed(db, g) /\ Counted(db, g)
    /\ \E p \in RosterOf(db, g) :
         \E h \in Commitments(db, p, g) :
           WellFormed(db, h) /\ db.games[h].endTime = db.games[g].startTime

(***************************************************************************)
(* C30: the three-case test is conservative for all intervals, malformed   *)
(* ones included: whenever a counted, non-excluded game [s, e) on which    *)
(* the player is rostered and the proposed interval [S, E) satisfy s < E   *)
(* and S < e, at least one of the three cases holds, so checkPlayerConflict *)
(* reports a conflict.                                                     *)
(***************************************************************************)
C30_ThreeCasesAreConservative ==
  \A t \in Slots :
    Completed(t, "checkPlayerConflict")
    => LET p == The(reqs[t].playerId)
           S == The(reqs[t].newStartTime)
           E == The(reqs[t].newEndTime)
       IN \A g \in DOMAIN db.games :
            ( /\ Rostered(db, g, p)
              /\ Counted(db, g)
              /\ reqs[t].gameId # Some(g)
              /\ db.games[g].startTime < E
              /\ S < db.games[g].endTime )
            => /\ ThreeCases(db.games[g], S, E)
               /\ reqs[t].result # None

(* A stored game with endTime before startTime satisfies both inequalities *)
(* with the proposed interval, and the check reports it.                   *)
C30_Witness ==
  \E t \in Slots, g \in DOMAIN db.games :
    /\ Completed(t, "checkPlayerConflict")
    /\ Rostered(db, g, The(reqs[t].playerId))
    /\ Counted(db, g)
    /\ reqs[t].gameId # Some(g)
    /\ db.games[g].endTime < db.games[g].startTime
    /\ db.games[g].startTime < The(reqs[t].newEndTime)
    /\ The(reqs[t].newStartTime) < db.games[g].endTime
    /\ reqs[t].result = Some(g)

====
